---- MODULE Spec2Model ----
(***************************************************************************)
(* Retrieval subsystem of the study chatbot: the in-memory chunk stores    *)
(* (EnhancedVectorDatabase, AdvancedVectorDatabase), their search          *)
(* coordinators and the context assemblers.                                *)
(*                                                                         *)
(* Text is a sequence of one-character strings, so that toLowerCase,       *)
(* split, includes and startsWith are computed as the code computes them.  *)
(* Real-valued scores are fixed-point integers in units of 1/Scale.        *)
(***************************************************************************)
EXTENDS Integers, Sequences, FiniteSets, TLC

\* ------------------------------------------------------------------------
\* Fixed-point arithmetic
\* ------------------------------------------------------------------------

\* 1.0 in fixed point; every similarity is an integer number of 1/Scale.
Scale == 100 * 100

Min(a, b) == IF a < b THEN a ELSE b
Abs(a) == IF a < 0 THEN -a ELSE a

\* Math.ceil(a / b) for a >= 0, b > 0.
CeilDiv(a, b) == (a + b - 1) \div b

RECURSIVE ISqrtBetween(_, _, _)
ISqrtBetween(n, lo, hi) ==
    IF lo >= hi THEN lo
    ELSE LET mid == (lo + hi + 1) \div 2
         IN IF mid * mid <= n THEN ISqrtBetween(n, mid, hi)
                              ELSE ISqrtBetween(n, lo, mid - 1)

\* floor(Math.sqrt(n))
ISqrt(n) == ISqrtBetween(n, 0, Min(n, 46340))

RECURSIVE SumSeq(_)
SumSeq(s) == IF s = <<>> THEN 0 ELSE Head(s) + SumSeq(Tail(s))

RECURSIVE SumSet(_, _)
SumSet(S, f) ==
    IF S = {} THEN 0
    ELSE LET x == CHOOSE y \in S : TRUE IN f[x] + SumSet(S \ {x}, f)

Range(s) == { s[i] : i \in 1..Len(s) }

\* Array.prototype.filter over a sequence.
RECURSIVE FilterSeq(_, _)
FilterSeq(s, keep) ==
    IF s = <<>> THEN <<>>
    ELSE IF keep[Head(s)] THEN <<Head(s)>> \o FilterSeq(Tail(s), keep)
                          ELSE FilterSeq(Tail(s), keep)

\* Array.prototype.slice(0, n) for n >= 0.
Slice(s, n) == SubSeq(s, 1, Min(n, Len(s)))

\* F at the value of e, e being evaluated once.
With(e, F(_)) == CHOOSE y \in { F(x) : x \in {e} } : TRUE

\* ------------------------------------------------------------------------
\* Strings
\* ------------------------------------------------------------------------

Space == " "

\* String.prototype.toLowerCase, on the letters the model's texts use.
LowerChar(c) ==
    CASE c = "B" -> "b"
      [] c = "G" -> "g"
      [] c = "T" -> "t"
      [] OTHER -> c

toLowerCase(t) == [i \in 1..Len(t) |-> LowerChar(t[i])]

WordChars ==
    { "a", "b", "c", "d", "e", "f", "g", "h", "i", "j", "k", "l", "m",
      "n", "o", "p", "q", "r", "s", "t", "u", "v", "w", "x", "y", "z",
      "B", "G", "T", "_", "0", "1", "2", "3", "4", "5", "6", "7", "8", "9" }

Digits == { "0", "1", "2", "3", "4", "5", "6", "7", "8", "9" }

\* String.prototype.includes
Includes(hay, needle) ==
    \E i \in 0..(Len(hay) - Len(needle)) :
        SubSeq(hay, i + 1, i + Len(needle)) = needle

\* String.prototype.startsWith
StartsWith(s, prefix) ==
    /\ Len(prefix) <= Len(s)
    /\ SubSeq(s, 1, Len(prefix)) = prefix

\* .replace(/\s+/g, ' '): every run of spaces becomes one space.
RECURSIVE CollapseSpaces(_)
CollapseSpaces(t) ==
    IF Len(t) < 2 THEN t
    ELSE IF t[1] = Space /\ t[2] = Space THEN CollapseSpaces(Tail(t))
    ELSE <<t[1]>> \o CollapseSpaces(Tail(t))

\* String.prototype.trim
RECURSIVE Trim(_)
Trim(t) ==
    IF t = <<>> THEN t
    ELSE IF t[1] = Space THEN Trim(Tail(t))
    ELSE IF t[Len(t)] = Space THEN Trim(SubSeq(t, 1, Len(t) - 1))
    ELSE t

\* String.prototype.split(/\s+/): a leading or trailing run of spaces, and
\* the empty string, yield an empty piece.
RECURSIVE SplitWs(_)
SplitWs(t) ==
    IF \A i \in 1..Len(t) : t[i] # Space THEN <<t>>
    ELSE LET i == CHOOSE k \in 1..Len(t) :
                      /\ t[k] = Space
                      /\ \A m \in 1..(k - 1) : t[m] # Space
             rest == SubSeq(t, i, Len(t))
             j == IF \A k \in 1..Len(rest) : rest[k] = Space
                  THEN Len(t) + 1
                  ELSE i - 1 + CHOOSE k \in 1..Len(rest) :
                                   /\ rest[k] # Space
                                   /\ \A m \in 1..(k - 1) : rest[m] = Space
         IN <<SubSeq(t, 1, i - 1)>> \o SplitWs(SubSeq(t, j, Len(t)))

\* preprocessText: lower-case, punctuation to spaces, collapse, trim.
preprocessText(text) ==
    LET lower == toLowerCase(text)
        noPunct == [i \in 1..Len(lower) |->
                       IF lower[i] \in WordChars \/ lower[i] = Space
                       THEN lower[i] ELSE Space]
    IN Trim(CollapseSpaces(noPunct))

\* ------------------------------------------------------------------------
\* Library calls of the feature extractor (natural, stopword,
\* keyword-extractor), by their behaviour on the model's vocabulary
\* ------------------------------------------------------------------------

\* natural.PorterStemmer.stem: lower-cases; tokens shorter than 3 are
\* returned as they are; step 1a strips the plural suffix.  The other
\* steps leave every word of the model's vocabulary unchanged.
stem(token) ==
    LET w == toLowerCase(token)
        n == Len(w)
    IN IF n < 3 THEN w
       ELSE IF n >= 4 /\ SubSeq(w, n - 3, n) = <<"s", "s", "e", "s">>
            THEN SubSeq(w, 1, n - 2)
       ELSE IF SubSeq(w, n - 2, n) = <<"i", "e", "s">>
            THEN SubSeq(w, 1, n - 2)
       ELSE IF SubSeq(w, n - 1, n) = <<"s", "s">> THEN w
       ELSE IF w[n] = "s" THEN SubSeq(w, 1, n - 1)
       ELSE w

\* The stopword list `eng`, restricted to the words over the model's
\* alphabet that matter to the feature extractor.
eng ==
    { <<"a">>,
      <<"i">>,
      <<"i", "s">>,
      <<"a", "r", "e">>,
      <<"a", "s">>,
      <<"t", "h", "e">>,
      <<"t", "o">>,
      <<"b", "y">>,
      <<"f", "o", "r">>,
      <<"s", "u", "c", "h">>,
      <<"s", "i", "n", "c", "e">>,
      <<"b", "e", "c", "a", "u", "s", "e">>,
      <<"w", "h", "a", "t">> }

\* removeStopwords(tokens, eng): drops the tokens whose lower-case form is
\* a stopword, keeps the order of the rest.
removeStopwords(tokens) ==
    FilterSeq(tokens, [w \in Range(tokens) |-> toLowerCase(w) \notin eng])

\* remove_duplicates: the first occurrence of each word, in order.
RECURSIVE Dedupe(_)
Dedupe(s) ==
    IF s = <<>> THEN <<>>
    ELSE LET front == Dedupe(SubSeq(s, 1, Len(s) - 1))
             last == s[Len(s)]
         IN IF last \in Range(front) THEN front ELSE Append(front, last)

\* A word-frequency object: word -> number of occurrences.
CountMap(words) ==
    [w \in Range(words) |-> Cardinality({ i \in 1..Len(words) : words[i] = w })]

\* ------------------------------------------------------------------------
\* Feature extraction (EnhancedVectorDatabase)
\* ------------------------------------------------------------------------

createTfidfVector(text) ==
    LET words == SplitWs(preprocessText(text))
        stemmed == [i \in 1..Len(words) |-> stem(words[i])]
    IN CountMap(removeStopwords(stemmed))

createWordFrequencyVector(words) ==
    LET cleaned == removeStopwords(words)
    IN CountMap([i \in 1..Len(cleaned) |-> stem(toLowerCase(cleaned[i]))])

positive ==
    { <<"g", "o", "o", "d">>,
      <<"g", "r", "e", "a", "t">>,
      <<"e", "x", "c", "e", "l", "l", "e", "n", "t">>,
      <<"e", "f", "f", "e", "c", "t", "i", "v", "e">>,
      <<"s", "u", "c", "c", "e", "s", "s", "f", "u", "l">>,
      <<"i", "m", "p", "o", "r", "t", "a", "n", "t">>,
      <<"s", "i", "g", "n", "i", "f", "i", "c", "a", "n", "t">> }

negative ==
    { <<"b", "a", "d">>,
      <<"p", "o", "o", "r">>,
      <<"f", "a", "i", "l", "e", "d">>,
      <<"p", "r", "o", "b", "l", "e", "m">>,
      <<"i", "s", "s", "u", "e">>,
      <<"d", "i", "f", "f", "i", "c", "u", "l", "t">>,
      <<"c", "h", "a", "l", "l", "e", "n", "g", "e">> }

\* +1 per positive word, -1 per negative word, over the raw tokens.
calculateSimpleSentiment(text) ==
    LET words == SplitWs(toLowerCase(text))
    IN Cardinality({ i \in 1..Len(words) : words[i] \in positive })
       - Cardinality({ i \in 1..Len(words) : words[i] \in negative })

definitionPatterns ==
    { <<"i", "s">>,
      <<"a", "r", "e">>,
      <<"m", "e", "a", "n", "s">>,
      <<"r", "e", "f", "e", "r", "s", " ", "t", "o">>,
      <<"d", "e", "f", "i", "n", "e", "d", " ", "a", "s">> }

examplePatterns ==
    { <<"e", "x", "a", "m", "p", "l", "e">>,
      <<"s", "u", "c", "h", " ", "a", "s">>,
      <<"f", "o", "r", " ", "i", "n", "s", "t", "a", "n", "c", "e">>,
      <<"i", "n", "c", "l", "u", "d", "i", "n", "g">> }

comparisonPatterns ==
    { <<"c", "o", "m", "p", "a", "r", "e">>,
      <<"c", "o", "n", "t", "r", "a", "s", "t">>,
      <<"v", "e", "r", "s", "u", "s">>,
      <<"d", "i", "f", "f", "e", "r", "e", "n", "t">>,
      <<"s", "i", "m", "i", "l", "a", "r">> }

processPatterns ==
    { <<"s", "t", "e", "p">>,
      <<"p", "r", "o", "c", "e", "s", "s">>,
      <<"m", "e", "t", "h", "o", "d">>,
      <<"p", "r", "o", "c", "e", "d", "u", "r", "e">>,
      <<"a", "l", "g", "o", "r", "i", "t", "h", "m">> }

causalPatterns ==
    { <<"b", "e", "c", "a", "u", "s", "e">>,
      <<"s", "i", "n", "c", "e">>,
      <<"d", "u", "e", " ", "t", "o">>,
      <<"c", "a", "u", "s", "e", "d", " ", "b", "y">>,
      <<"r", "e", "s", "u", "l", "t">> }

\* RegExp.prototype.test for an alternation of literal patterns.
TestAny(patterns, text) == \E p \in patterns : Includes(text, p)

createSemanticVector(text) ==
    [ hasQuestions   |-> Includes(text, <<"?">>),
      hasNumbers     |-> \E i \in 1..Len(text) : text[i] \in Digits,
      hasDefinitions |-> TestAny(definitionPatterns, toLowerCase(text)),
      hasExamples    |-> TestAny(examplePatterns, toLowerCase(text)),
      hasComparisons |-> TestAny(comparisonPatterns, toLowerCase(text)),
      hasProcess     |-> TestAny(processPatterns, toLowerCase(text)),
      hasCausal      |-> TestAny(causalPatterns, toLowerCase(text)),
      sentiment      |-> calculateSimpleSentiment(text) ]

\* keyword.extract(text, {return_changed_case, remove_duplicates}) then
\* slice(0, 10): the lower-cased words without punctuation, stopwords and
\* repetitions, in text order.
extractChunkKeywords(text) ==
    LET words == SplitWs(preprocessText(text))
        kept == FilterSeq(words, [w \in Range(words) |-> w # <<>> /\ w \notin eng])
    IN Slice(Dedupe(kept), 10)

createTextEmbedding(text) ==
    LET pieces == SplitWs(preprocessText(text))
        words == FilterSeq(pieces, [w \in Range(pieces) |-> Len(w) > 2])
    IN [ tfidf    |-> createTfidfVector(text),
         wordFreq |-> createWordFrequencyVector(words),
         semantic |-> createSemanticVector(text),
         keywords |-> extractChunkKeywords(text),
         length   |-> Len(text) ]

\* ------------------------------------------------------------------------
\* Similarity engine (EnhancedVectorDatabase)
\* ------------------------------------------------------------------------

\* Cosine similarity of two word-count objects; 0 when they share no key.
calculateTfidfSimilarity(vec1, vec2) ==
    LET keys1 == DOMAIN vec1
        keys2 == DOMAIN vec2
        allKeys == keys1 \cup keys2
        v1 == [k \in allKeys |-> IF k \in keys1 THEN vec1[k] ELSE 0]
        v2 == [k \in allKeys |-> IF k \in keys2 THEN vec2[k] ELSE 0]
        dotProduct == SumSet(allKeys, [k \in allKeys |-> v1[k] * v2[k]])
        norm1 == SumSet(allKeys, [k \in allKeys |-> v1[k] * v1[k]])
        norm2 == SumSet(allKeys, [k \in allKeys |-> v2[k] * v2[k]])
    IN IF keys1 \cap keys2 = {} THEN 0
       ELSE IF norm1 = 0 \/ norm2 = 0 THEN 0
       ELSE (Scale \div 1000)
            * ISqrt((dotProduct * dotProduct * 1000000) \div (norm1 * norm2))

calculateVectorSimilarity(vec1, vec2) == calculateTfidfSimilarity(vec1, vec2)

\* Jaccard similarity of the two keyword lists.
calculateKeywordSimilarity(keywords1, keywords2) ==
    LET set1 == { toLowerCase(k) : k \in Range(keywords1) }
        set2 == { toLowerCase(k) : k \in Range(keywords2) }
    IN IF Len(keywords1) = 0 \/ Len(keywords2) = 0 THEN 0
       ELSE (Cardinality(set1 \cap set2) * Scale) \div Cardinality(set1 \cup set2)

BooleanFeatures ==
    { "hasQuestions", "hasNumbers", "hasDefinitions", "hasExamples",
      "hasComparisons", "hasProcess", "hasCausal" }

calculateSemanticSimilarity(sem1, sem2) ==
    LET total == Cardinality(BooleanFeatures)
        matches == Cardinality({ f \in BooleanFeatures : sem1[f] = sem2[f] })
        sentimentSim == Scale - (Abs(sem1.sentiment - sem2.sentiment) * Scale) \div 10
    IN ((matches * Scale) \div total + sentimentSim) \div 2

\* The weights 0.4, 0.3, 0.2 and 0.1 add up to 1, by which the sum is divided.
calculateEnhancedSimilarity(queryEmb, docEmb) ==
    LET tfidfSim == calculateTfidfSimilarity(queryEmb.tfidf, docEmb.tfidf)
        wordFreqSim == calculateVectorSimilarity(queryEmb.wordFreq, docEmb.wordFreq)
        keywordSim == calculateKeywordSimilarity(queryEmb.keywords, docEmb.keywords)
        semanticSim == calculateSemanticSimilarity(queryEmb.semantic, docEmb.semantic)
        totalSimilarity == tfidfSim * 4 + wordFreqSim * 3 + keywordSim * 2 + semanticSim * 1
        weights == 4 + 3 + 2 + 1
    IN IF weights > 0 THEN totalSimilarity \div weights ELSE 0

\* ------------------------------------------------------------------------
\* The texts, queries and identifiers the model draws its inputs from
\* ------------------------------------------------------------------------

TGoodTools == <<"g", "o", "o", "d", " ", "t", "o", "o", "l", "s">>
TTools == <<"T", "o", "o", "l", "s">>
TBadStep == <<"b", "a", "d", " ", "s", "t", "e", "p", "?">>
TIs == <<"i", "s">>

Texts == { TGoodTools, TTools, TBadStep, TIs }

QTools == <<"t", "o", "o", "l", "s">>
QGoodTools == <<"g", "o", "o", "d", " ", "t", "o", "o", "l", "s">>
QBad == <<"b", "a", "d", "?">>
QSix ==
    <<"t", "o", "o", "l", "s", " ", "a", "a", "a", " ", "b", "b", "b", " ",
      "c", "c", "c", " ", "d", "d", "d", " ", "e", "e", "e">>

Queries == { QTools, QGoodTools, QBad }

\* The embedding of every text, computed once (the code caches a chunk's
\* embedding at ingest and computes the query's once per search).
EmbeddingOf == [t \in Texts \cup Queries \cup {QSix} |-> createTextEmbedding(t)]

SimilarityOf ==
    [q \in Queries, t \in Texts |->
        calculateEnhancedSimilarity(EmbeddingOf[q], EmbeddingOf[t])]


DocD == <<"d">>
DocDX == <<"d", "_", "x">>

DocIds == { DocD, DocDX }

Sessions == { "s1", "s2" }

\* A sessionId argument that is null (the parameter's default).
NoSession == "null"

\* The ids createSession makes up when it is given none:
\* `session_${Date.now()}_${random}`.
GeneratedIds == { "session_1", "session_2" }

\* The ids a chat session can be stored under.
ChatIds == Sessions \cup GeneratedIds

\* A documentIds argument that is null (the parameter's default).
NoDocumentIds == << <<"null">> >>

ChunkLists ==
    { <<>>,
      <<TTools>>,
      <<TGoodTools, TTools>>,
      <<TBadStep, TIs>> }

\* The number of addDocument and deleteSession calls in one behaviour.
MaxOps == 3

\* The number of addDocument calls suspended at their await at one time.
MaxInflight == 2

\* ------------------------------------------------------------------------
\* State: one vector store object, of either class
\* ------------------------------------------------------------------------

VARIABLES
    impl,               \* the class of the store object
    documents,          \* Map documentId -> docData, in insertion order
    embeddings,         \* Map chunkId -> chunk record, in insertion order
    sessionDocuments,   \* Map sessionId -> documentIds[]; NoEntry when absent
    isInitialized,      \* this.isInitialized
    currentElements,    \* this.currentElements (AdvancedVectorDatabase)
    inflight,           \* addDocument calls suspended at `await`
    ops,                \* addDocument and deleteSession calls made so far
    lastOp,             \* the last call that completed
    sessions,           \* DocumentService: Map sessionId -> session record
    chatSessions,       \* ChatHistoryService: Map sessionId -> session data
    chatHistory,        \* ChatHistoryService: Map sessionId -> messages[]
    result              \* what the last read call returned

\* Everything but the value returned to the caller: what a read leaves alone.
storeVars == <<impl, documents, embeddings, sessionDocuments, isInitialized,
               currentElements, inflight, ops, lastOp,
               sessions, chatSessions, chatHistory>>

vars == <<impl, documents, embeddings, sessionDocuments, isInitialized,
          currentElements, inflight, ops, lastOp,
          sessions, chatSessions, chatHistory, result>>

\* Map.prototype.get of a key the map does not hold.
NoEntry == << <<"undefined">> >>

NoResult == [op |-> "none"]

NoOp == [op |-> "none", documentId |-> <<>>, sessionId |-> NoSession, sessionDocs |-> <<>>]

\* `${documentId}_${index}`
DigitChars == <<"0", "1", "2", "3", "4", "5", "6", "7", "8", "9">>

\* The decimal digits of a number, as template substitution writes it.
RECURSIVE Decimal(_)
Decimal(n) ==
    IF n < 10 THEN <<DigitChars[n + 1]>>
    ELSE Decimal(n \div 10) \o <<DigitChars[(n % 10) + 1]>>

ChunkId(documentId, index) == documentId \o <<"_">> \o Decimal(index)

\* Array.push in place of Map.set: an entry is appended even when the key
\* is already there.
MapPush(entries, keys, key, entry) == Append(entries, entry)

\* Map.prototype.set on a map kept as the sequence of its entries: a key
\* already present keeps its place, a new key goes to the end.
MapSet(entries, keys, key, entry) ==
    IF \E i \in 1..Len(entries) : keys[i] = key
    THEN [i \in 1..Len(entries) |-> IF keys[i] = key THEN entry ELSE entries[i]]
    ELSE Append(entries, entry)

\* The keys of this.documents and of this.embeddings, in map order.
DocKeys(docs) == [i \in 1..Len(docs) |-> docs[i].id]

EmbKeys(embs) == [i \in 1..Len(embs) |-> embs[i].key]

\* Map.prototype.has / get on documents
HasDocument(docs, documentId) == \E i \in 1..Len(docs) : docs[i].id = documentId

GetDocument(docs, documentId) ==
    docs[CHOOSE i \in 1..Len(docs) : docs[i].id = documentId]

\* Array.prototype.includes on a documentIds list
ListIncludes(list, x) == \E i \in 1..Len(list) : list[i] = x

\* this.sessionDocuments.get(sessionId) || []
SessionDocsOrEmpty(sessionId) ==
    IF sessionDocuments[sessionId] = NoEntry THEN <<>> ELSE sessionDocuments[sessionId]

\* The constructor of EnhancedVectorDatabase.
InitEnhanced ==
    /\ impl = "enhanced"
    /\ documents = <<>>
    /\ embeddings = <<>>
    /\ sessionDocuments = [s \in Sessions |-> NoEntry]
    /\ isInitialized = TRUE
    /\ currentElements = 0
    /\ inflight = {}
    /\ ops = 0
    /\ lastOp = NoOp
    /\ sessions = [s \in Sessions |-> NoEntry]
    /\ chatSessions = <<>>
    /\ chatHistory = [id \in ChatIds |-> NoEntry]
    /\ result = NoResult

\* The constructor of AdvancedVectorDatabase.
InitAdvanced ==
    /\ impl = "advanced"
    /\ documents = <<>>
    /\ embeddings = <<>>
    /\ sessionDocuments = [s \in Sessions |-> NoEntry]
    /\ isInitialized = FALSE
    /\ currentElements = 0
    /\ inflight = {}
    /\ ops = 0
    /\ lastOp = NoOp
    /\ sessions = [s \in Sessions |-> NoEntry]
    /\ chatSessions = <<>>
    /\ chatHistory = [id \in ChatIds |-> NoEntry]
    /\ result = NoResult

\* ------------------------------------------------------------------------
\* EnhancedVectorDatabase: ingest and delete
\* ------------------------------------------------------------------------

\* The chunk records addDocument's forEach stores, one after the other.
RECURSIVE IndexChunks(_, _, _, _)
IndexChunks(embs, documentId, chunkTexts, index) ==
    IF index >= Len(chunkTexts) THEN embs
    ELSE IndexChunks(
             MapSet(embs, EmbKeys(embs), ChunkId(documentId, index),
                    [ key |-> ChunkId(documentId, index),
                      documentId |-> documentId,
                      chunkIndex |-> index,
                      text |-> chunkTexts[index + 1],
                      globalIndex |-> 0 ]),
             documentId, chunkTexts, index + 1)

\* this.sessionDocuments.set(sessionId, [documentId]): the list is begun
\* anew at every call.
SetSessionDocument(sessDocs, sessionId, documentId) ==
    [sessDocs EXCEPT ![sessionId] = <<documentId>>]

\* The session list after push(documentId), created when missing.
PushSessionDocument(sessDocs, sessionId, documentId) ==
    [sessDocs EXCEPT ![sessionId] =
        IF @ = NoEntry THEN <<documentId>> ELSE Append(@, documentId)]

\* this.documents.set(documentId, docData)
AddedDocuments(docs, documentId, chunks, sessionId) ==
    MapSet(docs, DocKeys(docs), documentId,
           [id |-> documentId, chunks |-> chunks, sessionId |-> sessionId])

\* A call of addDocument from start to return.  Its one await
\* (createEnhancedEmbeddings) comes before the first write and the
\* arguments it captured do not change, so the call acts at once.
AddDocument(documentId, chunks, sessionId) ==
    /\ impl = "enhanced"
    /\ result = NoResult
    /\ inflight = {}
    /\ ops < MaxOps
    /\ documents' = AddedDocuments(documents, documentId, chunks, sessionId)
    /\ sessionDocuments' = PushSessionDocument(sessionDocuments, sessionId, documentId)
    /\ embeddings' = IndexChunks(embeddings, documentId, chunks, 0)
    /\ ops' = ops + 1
    /\ lastOp' = [op |-> "addDocument", documentId |-> documentId,
                  sessionId |-> sessionId, sessionDocs |-> <<>>]
    /\ UNCHANGED <<impl, sessions, chatSessions, chatHistory, isInitialized, currentElements, inflight, result>>

\* addDocument up to its await: the chunk texts are taken and the call
\* waits for createEnhancedEmbeddings.
AddDocumentStart(documentId, chunks, sessionId) ==
    /\ impl = "enhanced"
    /\ result = NoResult
    /\ ops < MaxOps
    /\ Cardinality(inflight) < MaxInflight
    /\ inflight' = inflight \cup
           {[documentId |-> documentId, chunks |-> chunks, sessionId |-> sessionId]}
    /\ ops' = ops + 1
    /\ UNCHANGED <<impl, sessions, chatSessions, chatHistory, documents, embeddings, sessionDocuments, isInitialized,
                   currentElements, lastOp, result>>

\* addDocument after its await.
AddDocumentFinish(call) ==
    /\ impl = "enhanced"
    /\ result = NoResult
    /\ call \in inflight
    /\ inflight' = inflight \ {call}
    /\ documents' = AddedDocuments(documents, call.documentId, call.chunks, call.sessionId)
    /\ sessionDocuments' =
           PushSessionDocument(sessionDocuments, call.sessionId, call.documentId)
    /\ embeddings' = IndexChunks(embeddings, call.documentId, call.chunks, 0)
    /\ lastOp' = [op |-> "addDocument", documentId |-> call.documentId,
                  sessionId |-> call.sessionId, sessionDocs |-> <<>>]
    /\ UNCHANGED <<impl, sessions, chatSessions, chatHistory, isInitialized, currentElements, ops, result>>

\* The documents map after deleteSession's forEach over the session list.
RemoveDocuments(docs, sessionDocs) ==
    FilterSeq(docs, [d \in Range(docs) |-> ~ListIncludes(sessionDocs, d.id)])

\* A deleteSession that deletes only the first chunk key of each document.
RemoveEmbeddingsFirstChunk(embs, sessionDocs) ==
    FilterSeq(embs, [e \in Range(embs) |->
        ~\E i \in 1..Len(sessionDocs) : e.key = ChunkId(sessionDocs[i], 0)])

\* The embeddings map after it: every key that starts with `${docId}_`
\* for a docId of the list is deleted.
RemoveEmbeddings(embs, sessionDocs) ==
    FilterSeq(embs, [e \in Range(embs) |->
        ~\E i \in 1..Len(sessionDocs) : StartsWith(e.key, sessionDocs[i] \o <<"_">>)])

\* this.sessionDocuments.delete(sessionId)
RemoveSession(sessDocs, sessionId) == [sessDocs EXCEPT ![sessionId] = NoEntry]

\* deleteSession, the same code in both classes; it has no await.
deleteSession(sessionId) ==
    LET sessionDocs == SessionDocsOrEmpty(sessionId)
    IN /\ result = NoResult
       /\ ops < MaxOps
       /\ documents' = RemoveDocuments(documents, sessionDocs)
       /\ embeddings' = RemoveEmbeddings(embeddings, sessionDocs)
       /\ sessionDocuments' = RemoveSession(sessionDocuments, sessionId)
       /\ ops' = ops + 1
       /\ lastOp' = [op |-> "deleteSession", documentId |-> <<>>,
                     sessionId |-> sessionId, sessionDocs |-> sessionDocs]
       /\ UNCHANGED <<impl, sessions, chatSessions, chatHistory, isInitialized, currentElements, inflight, result>>

\* ------------------------------------------------------------------------
\* EnhancedVectorDatabase: search coordinator
\* ------------------------------------------------------------------------

\* The relevance threshold of semanticSearch, 0.1.
Threshold == Scale \div 10

\* An unstable insertion: an element goes before the elements equal to it.
RECURSIVE InsertBeforeEqual(_, _)
InsertBeforeEqual(sorted, r) ==
    IF sorted = <<>> THEN <<r>>
    ELSE IF Head(sorted).similarity > r.similarity
         THEN <<Head(sorted)>> \o InsertBeforeEqual(Tail(sorted), r)
         ELSE <<r>> \o sorted

\* Array.prototype.sort((a, b) => b.similarity - a.similarity): stable, so
\* an element goes behind every element that is not smaller.
RECURSIVE InsertBySimilarity(_, _)
InsertBySimilarity(sorted, r) ==
    IF sorted = <<>> THEN <<r>>
    ELSE IF Head(sorted).similarity >= r.similarity
         THEN <<Head(sorted)>> \o InsertBySimilarity(Tail(sorted), r)
         ELSE <<r>> \o sorted

RECURSIVE SortBySimilarity(_)
SortBySimilarity(rs) ==
    IF rs = <<>> THEN <<>>
    ELSE InsertBySimilarity(SortBySimilarity(SubSeq(rs, 1, Len(rs) - 1)), rs[Len(rs)])

\* The chunk records a search scores: all of them, narrowed to the
\* session's documents when the session is known, and to documentIds.
EmbeddingsToSearch(query, sessionId, documentIds) ==
    LET bySession ==
            IF sessionId # NoSession /\ sessionDocuments[sessionId] # NoEntry
            THEN FilterSeq(embeddings, [e \in Range(embeddings) |->
                     ListIncludes(sessionDocuments[sessionId], e.documentId)])
            ELSE embeddings
    IN IF documentIds # NoDocumentIds
       THEN FilterSeq(bySession, [e \in Range(bySession) |->
                ListIncludes(documentIds, e.documentId)])
       ELSE bySession

semanticSearch(query, sessionId, limit, documentIds) ==
    LET candidates == EmbeddingsToSearch(query, sessionId, documentIds)
        scored == [i \in 1..Len(candidates) |->
                      [ documentId |-> candidates[i].documentId,
                        chunkIndex |-> candidates[i].chunkIndex,
                        text |-> candidates[i].text,
                        similarity |-> SimilarityOf[query, candidates[i].text] ]]
        results == FilterSeq(scored, [r \in Range(scored) |-> r.similarity > Threshold])
    IN Slice(SortBySimilarity(results), limit)

searchInDocuments(query, documentIds, sessionId, limit) ==
    semanticSearch(query, sessionId, limit, documentIds)

\* A call of semanticSearch or of searchInDocuments (documentIds given).
\* A search that opens an entry for a session it does not know.
SemanticSearchOpeningSession(query, sessionId, limit, documentIds) ==
    /\ impl = "enhanced"
    /\ result = NoResult
    /\ result' = [ op |-> "semanticSearch", query |-> query, sessionId |-> sessionId,
                   limit |-> limit, documentIds |-> documentIds,
                   out |-> semanticSearch(query, sessionId, limit, documentIds) ]
    /\ sessionDocuments' =
           [s \in Sessions |-> IF s = sessionId /\ sessionDocuments[s] = NoEntry
                               THEN <<>> ELSE sessionDocuments[s]]
    /\ UNCHANGED <<impl, sessions, chatSessions, chatHistory, documents, embeddings, isInitialized, currentElements,
                   inflight, ops, lastOp>>

SemanticSearch(query, sessionId, limit, documentIds) ==
    /\ impl = "enhanced"
    /\ result = NoResult
    /\ result' = [ op |-> "semanticSearch", query |-> query, sessionId |-> sessionId,
                   limit |-> limit, documentIds |-> documentIds,
                   out |-> semanticSearch(query, sessionId, limit, documentIds) ]
    /\ UNCHANGED storeVars

\* ------------------------------------------------------------------------
\* EnhancedVectorDatabase: session statistics
\* ------------------------------------------------------------------------

\* Statistics taken over every document of the store, whatever its session.
getSessionStatsOfStore(sessionId) ==
    [ documentCount |-> Len(documents),
      chunkCount |-> SumSeq([i \in 1..Len(documents) |-> Len(documents[i].chunks)]),
      estimatedTokens |->
          SumSeq([i \in 1..Len(documents) |->
              SumSeq([j \in 1..Len(documents[i].chunks) |->
                  CeilDiv(Len(documents[i].chunks[j]), 4)])]) ]

getSessionStats(sessionId) ==
    LET sessionDocs == SessionDocsOrEmpty(sessionId)
        present == FilterSeq(sessionDocs,
                       [d \in Range(sessionDocs) |-> HasDocument(documents, d)])
        docs == [i \in 1..Len(present) |-> GetDocument(documents, present[i])]
    IN [ documentCount |-> Len(docs),
         chunkCount |-> SumSeq([i \in 1..Len(docs) |-> Len(docs[i].chunks)]),
         estimatedTokens |->
             SumSeq([i \in 1..Len(docs) |->
                 SumSeq([j \in 1..Len(docs[i].chunks) |->
                     CeilDiv(Len(docs[i].chunks[j]), 4)])]) ]

\* A read that takes the session's list away with it.
GetSessionStatsAndForget(sessionId) ==
    /\ result = NoResult
    /\ result' = [ op |-> "getSessionStats", sessionId |-> sessionId,
                   out |-> getSessionStats(sessionId) ]
    /\ sessionDocuments' = RemoveSession(sessionDocuments, sessionId)
    /\ UNCHANGED <<impl, sessions, chatSessions, chatHistory, documents, embeddings, isInitialized, currentElements,
                   inflight, ops, lastOp>>

GetSessionStats(sessionId) ==
    /\ result = NoResult
    /\ result' = [ op |-> "getSessionStats", sessionId |-> sessionId,
                   out |-> getSessionStats(sessionId) ]
    /\ UNCHANGED storeVars

\* The caller asks for the statistics of the same session again, the
\* first answer in hand and nothing done to the store in between.
GetSessionStatsAgain(sessionId) ==
    /\ result.op = "getSessionStats"
    /\ result.sessionId = sessionId
    /\ result' = [ op |-> "getSessionStatsAgain", sessionId |-> sessionId,
                   first |-> result.out,
                   out |-> getSessionStats(sessionId) ]
    /\ UNCHANGED storeVars


\* ------------------------------------------------------------------------
\* EnhancedVectorDatabase: cross-document search
\* ------------------------------------------------------------------------

\* Array.prototype.join(' ')
RECURSIVE JoinWithSpace(_)
JoinWithSpace(texts) ==
    IF texts = <<>> THEN <<>>
    ELSE IF Len(texts) = 1 THEN texts[1]
    ELSE texts[1] \o <<Space>> \o JoinWithSpace(Tail(texts))

\* stats.avgWordsPerChunk > 50 && < 200, with Math.round(words / chunks).
GoodStructure(chunks) ==
    LET words == SplitWs(JoinWithSpace(chunks))
        avgWordsPerChunk == (2 * Len(words) + Len(chunks)) \div (2 * Len(chunks))
    IN /\ Len(chunks) > 0
       /\ avgWordsPerChunk > 50
       /\ avgWordsPerChunk < 200

\* stats.complexity.readabilityScore > 40, the score being
\* (100 - avgWordLength * 5) + lexicalDiversity * 30 clamped to [0, 100].
Readable(chunks) ==
    LET words == SplitWs(JoinWithSpace(chunks))
        count == Len(words)
        chars == SumSeq([i \in 1..count |-> Len(words[i])])
        unique == Cardinality({ toLowerCase(words[i]) : i \in 1..count })
    IN 100 * count - 5 * chars + 30 * unique > 40 * count

\* calculateDocumentQuality; `recent` is daysSinceAdded < 7 at the call.
calculateDocumentQuality(docData, recent) ==
    Min(Scale,
        (5 * Scale) \div 10
        + (IF GoodStructure(docData.chunks) THEN (2 * Scale) \div 10 ELSE 0)
        + (IF Readable(docData.chunks) THEN (2 * Scale) \div 10 ELSE 0)
        + (IF recent THEN Scale \div 10 ELSE 0))

\* Math.log(n) in units of 1/Scale, n = 1..9.
LnTable == <<0, 6931, 10986, 13863, 16094, 17918, 19459, 20794, 21972>>

\* The documentIds of the results in order of first appearance: the key
\* order of the documentGroups object.
GroupKeys(results) == Dedupe([i \in 1..Len(results) |-> results[i].documentId])

ChunksOf(results, documentId) ==
    FilterSeq(results, [r \in Range(results) |-> r.documentId = documentId])

MaxSimilarity(chunks) ==
    CHOOSE m \in { chunks[i].similarity : i \in 1..Len(chunks) } :
        \A i \in 1..Len(chunks) : chunks[i].similarity <= m

RECURSIVE InsertByRelevance(_, _)
InsertByRelevance(sorted, g) ==
    IF sorted = <<>> THEN <<g>>
    ELSE IF Head(sorted).relevanceScore >= g.relevanceScore
         THEN <<Head(sorted)>> \o InsertByRelevance(Tail(sorted), g)
         ELSE <<g>> \o sorted

\* The groups left in the key order of documentGroups.
KeepGroupOrder(gs) == gs

\* Array.prototype.sort((a, b) => b.relevanceScore - a.relevanceScore)
RECURSIVE SortByRelevance(_)
SortByRelevance(gs) ==
    IF gs = <<>> THEN <<>>
    ELSE InsertByRelevance(SortByRelevance(SubSeq(gs, 1, Len(gs) - 1)), gs[Len(gs)])

\* One entry of documentGroups with its scores; recentDocs are the
\* documents added less than 7 days before the call.
DocumentGroup(results, docId, recentDocs) ==
    LET chunks == ChunksOf(results, docId)
        chunkCount == Len(chunks)
        avgSimilarity ==
            SumSeq([i \in 1..chunkCount |-> chunks[i].similarity]) \div chunkCount
        maxSimilarity == MaxSimilarity(chunks)
        qualityBonus ==
            IF HasDocument(documents, docId)
            THEN calculateDocumentQuality(GetDocument(documents, docId),
                                          docId \in recentDocs)
            ELSE 0
    IN [ documentId |-> docId,
         chunks |-> SortBySimilarity(chunks),
         avgSimilarity |-> avgSimilarity,
         maxSimilarity |-> maxSimilarity,
         chunkCount |-> chunkCount,
         relevanceScore |->
             (avgSimilarity * 4 + maxSimilarity * 4
              + LnTable[chunkCount + 1] * 1 + qualityBonus * 1) \div 10 ]

\* A crossDocumentSearch that returns every group it ranked.
crossDocumentSearchUncut(query, sessionId, limit, recentDocs) ==
    With(semanticSearch(query, sessionId, limit * 2, NoDocumentIds),
         LAMBDA results :
             With(GroupKeys(results),
                  LAMBDA keys :
                      SortByRelevance([i \in 1..Len(keys) |->
                          DocumentGroup(results, keys[i], recentDocs)])))

crossDocumentSearch(query, sessionId, limit, recentDocs) ==
    With(semanticSearch(query, sessionId, limit * 2, NoDocumentIds),
         LAMBDA results :
             With(GroupKeys(results),
                  LAMBDA keys :
                      With([i \in 1..Len(keys) |->
                               DocumentGroup(results, keys[i], recentDocs)],
                           LAMBDA crossDocResults :
                               Slice(SortByRelevance(crossDocResults), limit))))

CrossDocumentSearch(query, sessionId, limit, recentDocs) ==
    /\ impl = "enhanced"
    /\ result = NoResult
    /\ result' = [ op |-> "crossDocumentSearch", query |-> query,
                   sessionId |-> sessionId, limit |-> limit,
                   out |-> crossDocumentSearch(query, sessionId, limit, recentDocs) ]
    /\ UNCHANGED storeVars

\* DocumentService.crossDocumentSearch: the groups of the results at or
\* above confidenceThreshold, ranked by their best similarity.
ServiceGroup(kept, docId) ==
    LET chunks == ChunksOf(kept, docId)
    IN [ documentId |-> docId,
         chunks |-> chunks,
         chunkCount |-> Len(chunks),
         maxSimilarity |-> MaxSimilarity(chunks),
         relevanceScore |-> MaxSimilarity(chunks) ]

serviceCrossDocumentSearch(query, sessionId, limit, confidenceThreshold, documentIds) ==
    With(semanticSearch(query, sessionId, limit, documentIds),
         LAMBDA searchResults :
             With(FilterSeq(searchResults, [r \in Range(searchResults) |->
                                r.similarity >= confidenceThreshold]),
                  LAMBDA kept :
                      With(GroupKeys(kept),
                           LAMBDA keys :
                               With([i \in 1..Len(keys) |-> ServiceGroup(kept, keys[i])],
                                    LAMBDA groups : SortByRelevance(groups)))))

ServiceCrossDocumentSearch(query, sessionId, limit, documentIds) ==
    /\ impl = "enhanced"
    /\ result = NoResult
    /\ result' = [ op |-> "serviceCrossDocumentSearch", query |-> query,
                   sessionId |-> sessionId, limit |-> limit,
                   out |-> serviceCrossDocumentSearch(query, sessionId, limit,
                                                      Threshold, documentIds) ]
    /\ UNCHANGED storeVars

\* ------------------------------------------------------------------------
\* EnhancedVectorDatabase: context assembler
\* ------------------------------------------------------------------------

\* The loop of getRelevantContext: textTokens is text.length * 0.25, kept
\* here in quarters of a token; the first result over the budget ends it.
RECURSIVE TakeWithinBudget(_, _, _)
TakeWithinBudget(results, tokenQuarters, maxTokens) ==
    IF results = <<>> THEN <<>>
    ELSE LET textQuarters == Len(Head(results).text)
         IN IF tokenQuarters + textQuarters > 4 * maxTokens THEN <<>>
            ELSE <<Head(results)>>
                 \o TakeWithinBudget(Tail(results), tokenQuarters + textQuarters, maxTokens)

\* The context and sources built from the search results.
AssembleContext(results, maxTokens) ==
    LET included == TakeWithinBudget(results, 0, maxTokens)
    IN [ included |-> included,
         sources |-> Slice([i \in 1..Len(included) |->
                         [ documentId |-> included[i].documentId,
                           similarity |-> included[i].similarity,
                           snippet |-> Slice(included[i].text, 150) ]], 10),
         totalResults |-> Len(results) ]

getRelevantContext(query, sessionId, maxTokens) ==
    AssembleContext(semanticSearch(query, sessionId, 20, NoDocumentIds), maxTokens)

GetRelevantContext(query, sessionId, maxTokens) ==
    /\ impl = "enhanced"
    /\ result = NoResult
    /\ result' = [ op |-> "getRelevantContext", query |-> query,
                   sessionId |-> sessionId, maxTokens |-> maxTokens,
                   out |-> getRelevantContext(query, sessionId, maxTokens) ]
    /\ UNCHANGED storeVars

\* ------------------------------------------------------------------------
\* AdvancedVectorDatabase
\* ------------------------------------------------------------------------

\* this.maxElements, the capacity of the HNSW index: 10000 in the
\* constructor, scaled down to what a behaviour of MaxOps calls can fill.
maxElements == 3

\* initialize(): the encoder loads, or the load fails and the store stays
\* in simple mode.
AdvInitialize(loaded) ==
    /\ impl = "advanced"
    /\ result = NoResult
    /\ ~isInitialized
    /\ isInitialized' = loaded
    /\ UNCHANGED <<impl, sessions, chatSessions, chatHistory, documents, embeddings, sessionDocuments, currentElements,
                   inflight, ops, lastOp, result>>

\* The forEach of addDocument over the chunk texts, from chunk `index` on:
\* a chunk is skipped once the index is full.
RECURSIVE AdvIndexChunks(_, _, _, _, _)
AdvIndexChunks(embs, count, documentId, chunkTexts, index) ==
    IF index >= Len(chunkTexts) THEN [embs |-> embs, count |-> count]
    ELSE IF count >= maxElements
         THEN AdvIndexChunks(embs, count, documentId, chunkTexts, index + 1)
    ELSE AdvIndexChunks(
             MapSet(embs, EmbKeys(embs), ChunkId(documentId, index),
                    [ key |-> ChunkId(documentId, index),
                      documentId |-> documentId,
                      chunkIndex |-> index,
                      text |-> chunkTexts[index + 1],
                      globalIndex |-> count ]),
             count + 1, documentId, chunkTexts, index + 1)

\* addDocument of AdvancedVectorDatabase from start to return; its one
\* await (createEmbeddings) comes before the first write.  In simple mode,
\* and when createEmbeddings throws (embedded = FALSE), addDocumentSimple
\* stores the document record and the session entry only.
AdvAddDocument(documentId, chunks, sessionId, embedded) ==
    LET indexed == AdvIndexChunks(embeddings, currentElements, documentId, chunks, 0)
    IN /\ impl = "advanced"
       /\ result = NoResult
       /\ ops < MaxOps
       /\ isInitialized \/ ~embedded
       /\ documents' = AddedDocuments(documents, documentId, chunks, sessionId)
       /\ sessionDocuments' = PushSessionDocument(sessionDocuments, sessionId, documentId)
       /\ IF isInitialized /\ embedded
          THEN /\ embeddings' = indexed.embs
               /\ currentElements' = indexed.count
          ELSE UNCHANGED <<embeddings, currentElements>>
       /\ ops' = ops + 1
       /\ lastOp' = [op |-> "addDocument", documentId |-> documentId,
                     sessionId |-> sessionId, sessionDocs |-> <<>>]
       /\ UNCHANGED <<impl, sessions, chatSessions, chatHistory, isInitialized, inflight, result>>

\* A chunk that is null: neither a string nor an object with a text.
NullChunk == <<"null">>

\* The store left by a call that threw after it had recorded the document
\* and listed it under the session.
FailedAfterRecord(documentId, chunks, sessionId) ==
    [ documents |-> AddedDocuments(documents, documentId, chunks, sessionId),
      embeddings |-> embeddings,
      sessionDocuments |-> PushSessionDocument(sessionDocuments, sessionId, documentId) ]

\* The store left by an addDocument whose chunks.map(chunk => ... chunk.text)
\* throws: it is the first statement of addDocument and of
\* addDocumentSimple, so no assignment was made.
FailedAddDocument(documentId, chunks, sessionId) ==
    [ documents |-> documents,
      embeddings |-> embeddings,
      sessionDocuments |-> sessionDocuments ]

\* addDocument given a null chunk, on either store: the TypeError of
\* chunk.text is rethrown (EnhancedVectorDatabase), or sends the call to
\* addDocumentSimple, which throws it again (AdvancedVectorDatabase).
AddDocumentRejected(documentId, chunks, sessionId) ==
    LET left == FailedAddDocument(documentId, chunks, sessionId)
    IN /\ result = NoResult
       /\ \E i \in 1..Len(chunks) : chunks[i] = NullChunk
       /\ documents' = left.documents
       /\ embeddings' = left.embeddings
       /\ sessionDocuments' = left.sessionDocuments
       /\ result' = [ op |-> "addDocument", error |-> TRUE,
                      documentId |-> documentId, sessionId |-> sessionId,
                      before |-> [ documents |-> documents,
                                   embeddings |-> embeddings,
                                   sessionDocuments |-> sessionDocuments ] ]
       /\ UNCHANGED <<impl, sessions, chatSessions, chatHistory, isInitialized, currentElements, inflight, ops, lastOp>>

\* Every (document, chunk) of the documents to search, in map order.
RECURSIVE AllChunks(_)
AllChunks(docs) ==
    IF docs = <<>> THEN <<>>
    ELSE [i \in 1..Len(Head(docs).chunks) |->
             [ documentId |-> Head(docs).id,
               chunkIndex |-> i - 1,
               text |-> Head(docs).chunks[i] ]]
         \o AllChunks(Tail(docs))

\* The score simpleTextSearch gives a chunk: 0.8 for the phrase, 0.5 times
\* the share of query words found, 0.2 for more than one word found.
\* Without a query word of more than 2 characters the share is NaN, and so
\* is the score.
NaN == -1

SimpleScore(queryLower, queryWords, chunk) ==
    LET chunkLower == toLowerCase(chunk)
        matching == FilterSeq(queryWords,
                        [w \in Range(queryWords) |-> Includes(chunkLower, w)])
    IN IF Len(queryWords) = 0 THEN NaN
       ELSE (IF Includes(chunkLower, queryLower) THEN (8 * Scale) \div 10 ELSE 0)
            + (Len(matching) * 5 * Scale) \div (10 * Len(queryWords))
            + (IF Len(matching) > 1 THEN (2 * Scale) \div 10 ELSE 0)

\* The documents simpleTextSearch looks into: all of them, narrowed to the
\* session's when the session is known, and to documentIds.
DocumentsToSearch(sessionId, documentIds) ==
    LET bySession ==
            IF sessionId # NoSession /\ sessionDocuments[sessionId] # NoEntry
            THEN FilterSeq(documents, [d \in Range(documents) |->
                     ListIncludes(sessionDocuments[sessionId], d.id)])
            ELSE documents
    IN IF documentIds # NoDocumentIds
       THEN FilterSeq(bySession, [d \in Range(bySession) |->
                ListIncludes(documentIds, d.id)])
       ELSE bySession

simpleTextSearch(query, sessionId, limit, documentIds) ==
    LET queryLower == toLowerCase(query)
        pieces == SplitWs(queryLower)
        queryWords == FilterSeq(pieces, [w \in Range(pieces) |-> Len(w) > 2])
        Scored(chunks) ==
            [i \in 1..Len(chunks) |->
                [ documentId |-> chunks[i].documentId,
                  chunkIndex |-> chunks[i].chunkIndex,
                  text |-> chunks[i].text,
                  score |-> SimpleScore(queryLower, queryWords, chunks[i].text) ]]
        Results(hits) ==
            [i \in 1..Len(hits) |->
                [ documentId |-> hits[i].documentId,
                  chunkIndex |-> hits[i].chunkIndex,
                  text |-> hits[i].text,
                  similarity |-> Min(hits[i].score, Scale) ]]
    IN With(AllChunks(DocumentsToSearch(sessionId, documentIds)),
            LAMBDA chunks :
                With(Scored(chunks),
                     LAMBDA scored :
                         With(FilterSeq(scored, [r \in Range(scored) |->
                                            r.score # NaN /\ r.score > 0]),
                              LAMBDA hits :
                                  With(Results(hits),
                                       LAMBDA results :
                                           Slice(SortBySimilarity(results), limit)))))

\* What createEmbeddings and index.searchKnn give a query is the encoder's
\* and the index's business: any set of at most k points of the index, all
\* at a similarity (1 - distance) of one of these levels, or an exception.
SimLevels == { Scale \div 20, Scale \div 2 }

RECURSIVE SeqOfSet(_)
SeqOfSet(set) ==
    IF set = {} THEN <<>>
    ELSE LET least == CHOOSE x \in set : \A y \in set : x <= y
         IN <<least>> \o SeqOfSet(set \ {least})

KnnThrows == [throws |-> TRUE, neighbors |-> <<>>, similarity |-> <<>>]

KnnOutcomes(k) ==
    {KnnThrows} \cup
    UNION { { [throws |-> FALSE, neighbors |-> SeqOfSet(points),
               similarity |-> [p \in points |-> level]] : level \in SimLevels } :
            points \in { ps \in SUBSET (0..(currentElements - 1)) : Cardinality(ps) <= k } }

\* semanticSearch of AdvancedVectorDatabase: the text search in simple mode
\* and after an exception, otherwise the neighbours that still have a chunk
\* record, filtered by session and documents, sorted and cut.
advSemanticSearch(query, sessionId, limit, documentIds, knn) ==
    IF ~isInitialized \/ knn.throws
    THEN simpleTextSearch(query, sessionId, limit, documentIds)
    ELSE LET found == FilterSeq(knn.neighbors, [g \in Range(knn.neighbors) |->
                          \E e \in Range(embeddings) : e.globalIndex = g])
             results == [i \in 1..Len(found) |->
                 LET chunkData == CHOOSE e \in Range(embeddings) : e.globalIndex = found[i]
                 IN [ documentId |-> chunkData.documentId,
                      chunkIndex |-> chunkData.chunkIndex,
                      text |-> chunkData.text,
                      similarity |-> knn.similarity[found[i]] ]]
             bySession ==
                 IF sessionId # NoSession
                 THEN FilterSeq(results, [r \in Range(results) |->
                          ListIncludes(SessionDocsOrEmpty(sessionId), r.documentId)])
                 ELSE results
             byDocument ==
                 IF documentIds # NoDocumentIds
                 THEN FilterSeq(bySession, [r \in Range(bySession) |->
                          ListIncludes(documentIds, r.documentId)])
                 ELSE bySession
         IN Slice(SortBySimilarity(byDocument), limit)

\* The neighbours asked of the index.
KnnSize(limit) == Min(limit * 3, 50)

AdvSemanticSearch(query, sessionId, limit, documentIds, knn) ==
    /\ impl = "advanced"
    /\ result = NoResult
    /\ isInitialized \/ knn = KnnThrows
    /\ result' = [ op |-> "semanticSearch", query |-> query, sessionId |-> sessionId,
                   limit |-> limit, documentIds |-> documentIds,
                   out |-> advSemanticSearch(query, sessionId, limit, documentIds, knn) ]
    /\ UNCHANGED storeVars

\* One entry of documentGroups of AdvancedVectorDatabase.crossDocumentSearch.
AdvDocumentGroup(results, docId) ==
    LET chunks == ChunksOf(results, docId)
        chunkCount == Len(chunks)
        avgSimilarity ==
            SumSeq([i \in 1..chunkCount |-> chunks[i].similarity]) \div chunkCount
        maxSimilarity == MaxSimilarity(chunks)
    IN [ documentId |-> docId,
         chunks |-> SortBySimilarity(chunks),
         avgSimilarity |-> avgSimilarity,
         maxSimilarity |-> maxSimilarity,
         chunkCount |-> chunkCount,
         relevanceScore |->
             (avgSimilarity * 4 + maxSimilarity * 6 + LnTable[chunkCount + 1] * 1) \div 10 ]

\* crossDocumentSearch of AdvancedVectorDatabase: limit results, every
\* group returned.
advCrossDocumentSearch(query, sessionId, limit, knn) ==
    With(advSemanticSearch(query, sessionId, limit, NoDocumentIds, knn),
         LAMBDA results :
             With(GroupKeys(results),
                  LAMBDA keys :
                      With([i \in 1..Len(keys) |-> AdvDocumentGroup(results, keys[i])],
                           LAMBDA crossDocResults : SortByRelevance(crossDocResults))))

AdvCrossDocumentSearch(query, sessionId, limit, knn) ==
    /\ impl = "advanced"
    /\ result = NoResult
    /\ isInitialized \/ knn = KnnThrows
    /\ result' = [ op |-> "crossDocumentSearch", query |-> query,
                   sessionId |-> sessionId, limit |-> limit,
                   out |-> advCrossDocumentSearch(query, sessionId, limit, knn) ]
    /\ UNCHANGED storeVars

\* ------------------------------------------------------------------------
\* EnhancedAIService: the context of an answer
\* ------------------------------------------------------------------------

\* The chunks contextualQA builds its context from: the 15 best results of
\* the session's search, and when that search finds nothing the 15 best of
\* a search over all sessions.  rerankContext maps and reorders them and
\* neither adds nor drops a chunk.
contextualQA(question, sessionId) ==
    LET searchResults == semanticSearch(question, sessionId, 15, NoDocumentIds)
        globalResults == semanticSearch(question, NoSession, 15, NoDocumentIds)
    IN IF Len(searchResults) = 0 THEN globalResults ELSE searchResults

\* A call of contextualQA; it reads the store and writes nothing.
ContextualQA(question, sessionId) ==
    /\ impl = "enhanced"
    /\ result = NoResult
    /\ result' = [ op |-> "contextualQA", query |-> question, sessionId |-> sessionId,
                   limit |-> 15, documentIds |-> NoDocumentIds,
                   out |-> contextualQA(question, sessionId) ]
    /\ UNCHANGED storeVars

\* ------------------------------------------------------------------------
\* ChatHistoryService: sessions and their messages
\* ------------------------------------------------------------------------

\* A title argument that is null (the parameter's default).
NoTitle == <<"null">>

NewChat == <<"N", "e", "w", " ", "C", "h", "a", "t">>

\* Messages as [type, content]; a content of 50 characters or fewer is a
\* title as it stands.
UserMessage == << <<"user">>, <<"W", "h", "y", "?">> >>
AssistantMessage == << <<"assistant">>, <<"S", "o", ".">> >>
ChatMessages == { UserMessage, AssistantMessage }

\* The number of messages kept for one session in a behaviour.
MaxHistory == 2

SessionKeys(chats) == [i \in 1..Len(chats) |-> chats[i].id]

\* createSession(title, sessionId): the session goes under sessionId, or
\* under the generated id when sessionId is null; an entry already stored
\* under that id is replaced and its history emptied.  fileHistory, which
\* addMessage never reads, is left out.
createSession(chats, history, title, sessionId, generated) ==
    LET id == IF sessionId # NoSession THEN sessionId ELSE generated
        session == [ id |-> id,
                     title |-> IF title # NoTitle THEN title ELSE NewChat,
                     messageCount |-> 0 ]
    IN [ chatSessions |-> MapSet(chats, SessionKeys(chats), id, session),
         chatHistory |-> [history EXCEPT ![id] = <<>>] ]

\* An id made from the clock and a random number is none that is stored.
Fresh(generated) ==
    /\ chatHistory[generated] = NoEntry
    /\ ~HasDocument(chatSessions, generated)

CreateSession(title, sessionId, generated) ==
    LET created == createSession(chatSessions, chatHistory, title, sessionId, generated)
    IN /\ result = NoResult
       /\ sessionId = NoSession => Fresh(generated)
       /\ chatSessions' = created.chatSessions
       /\ chatHistory' = created.chatHistory
       /\ UNCHANGED <<impl, documents, embeddings, sessionDocuments, isInitialized,
                      currentElements, inflight, ops, lastOp, sessions, result>>

\* session.lastActivity, messageCount and title after a push.
TouchSession(session, history, message) ==
    [ session EXCEPT
        !.messageCount = Len(history),
        !.title = IF session.title = NewChat /\ message[1] = <<"user">> /\ message[2] # <<>>
                  THEN message[2] ELSE session.title ]

\* addMessage(sessionId, message).  Without a history for sessionId it
\* calls createSession() with no argument, which stores a session under a
\* generated id (taken to differ from sessionId); chatHistory.get(sessionId)
\* is then still undefined and the push throws a TypeError.
AddMessage(sessionId, message, generated) ==
    LET created == IF chatHistory[sessionId] = NoEntry
                   THEN createSession(chatSessions, chatHistory, NoTitle, NoSession, generated)
                   ELSE [chatSessions |-> chatSessions, chatHistory |-> chatHistory]
        threw == created.chatHistory[sessionId] = NoEntry
        pushed == IF threw THEN NoEntry
                  ELSE Append(created.chatHistory[sessionId], message)
    IN /\ result = NoResult
       /\ chatHistory[sessionId] = NoEntry => (Fresh(generated) /\ generated # sessionId)
       /\ chatHistory[sessionId] # NoEntry => Len(chatHistory[sessionId]) < MaxHistory
       /\ chatHistory' = IF threw THEN created.chatHistory
                         ELSE [created.chatHistory EXCEPT ![sessionId] = pushed]
       /\ chatSessions' =
              IF threw THEN created.chatSessions
              ELSE [i \in 1..Len(created.chatSessions) |->
                       IF created.chatSessions[i].id = sessionId
                       THEN TouchSession(created.chatSessions[i], pushed, message)
                       ELSE created.chatSessions[i]]
       /\ result' = [ op |-> "addMessage", sessionId |-> sessionId,
                      message |-> message, threw |-> threw ]
       /\ UNCHANGED <<impl, documents, embeddings, sessionDocuments, isInitialized,
                      currentElements, inflight, ops, lastOp, sessions>>

\* ChatHistoryService.deleteSession
ChatDeleteSession(sessionId) ==
    /\ result = NoResult
    /\ chatSessions' = FilterSeq(chatSessions,
                           [c \in Range(chatSessions) |-> c.id # sessionId])
    /\ chatHistory' = [chatHistory EXCEPT ![sessionId] = NoEntry]
    /\ UNCHANGED <<impl, documents, embeddings, sessionDocuments, isInitialized,
                   currentElements, inflight, ops, lastOp, sessions, result>>

\* ------------------------------------------------------------------------
\* DocumentService: ingest of an uploaded file and deletion of a session
\* ------------------------------------------------------------------------

\* The documentId was never handed out: uuidv4 gives a new one per file.
FreshId(documentId) ==
    /\ ~HasDocument(documents, documentId)
    /\ \A call \in inflight : call.documentId # documentId
    /\ \A s \in Sessions :
          /\ ~ListIncludes(SessionDocsOrEmpty(s), documentId)
          /\ sessions[s] = NoEntry \/ ~ListIncludes(sessions[s], documentId)

\* processDocuments for one file, up to the first await of
\* processSingleDocument: the file is with the document processor.
ProcessStart(documentId, chunks, sessionId) ==
    /\ impl = "enhanced"
    /\ result = NoResult
    /\ ops < MaxOps
    /\ Cardinality(inflight) < MaxInflight
    /\ FreshId(documentId)
    /\ inflight' = inflight \cup
           {[ documentId |-> documentId, chunks |-> chunks, sessionId |-> sessionId,
              phase |-> "processing" ]}
    /\ ops' = ops + 1
    /\ UNCHANGED <<impl, sessions, chatSessions, chatHistory, documents, embeddings,
                   sessionDocuments, isInitialized, currentElements, lastOp, result>>

\* processSingleDocument from the processor's answer to the await of
\* fs.unlink: vectorDB.addDocument has stored and indexed the document.
ProcessIndex(call) ==
    /\ call \in inflight
    /\ call.phase = "processing"
    /\ documents' = AddedDocuments(documents, call.documentId, call.chunks, call.sessionId)
    /\ sessionDocuments' =
           PushSessionDocument(sessionDocuments, call.sessionId, call.documentId)
    /\ embeddings' = IndexChunks(embeddings, call.documentId, call.chunks, 0)
    /\ inflight' = (inflight \ {call}) \cup {[call EXCEPT !.phase = "indexed"]}
    /\ lastOp' = [op |-> "addDocument", documentId |-> call.documentId,
                  sessionId |-> call.sessionId, sessionDocs |-> <<>>]
    /\ UNCHANGED <<impl, sessions, chatSessions, chatHistory, isInitialized,
                   currentElements, ops, result>>

\* processDocuments after its loop: the session record is created when
\* absent and the file's result is pushed on its documents.
ProcessFinish(call) ==
    /\ call \in inflight
    /\ call.phase = "indexed"
    /\ sessions' = [sessions EXCEPT ![call.sessionId] =
                       IF @ = NoEntry THEN <<call.documentId>>
                       ELSE Append(@, call.documentId)]
    /\ inflight' = inflight \ {call}
    /\ UNCHANGED <<impl, chatSessions, chatHistory, documents, embeddings,
                   sessionDocuments, isInitialized, currentElements, ops, lastOp, result>>

\* DocumentService.deleteSession: vectorDB.deleteSession, then
\* this.sessions.delete.
ServiceDeleteSession(sessionId) ==
    LET sessionDocs == SessionDocsOrEmpty(sessionId)
    IN /\ impl = "enhanced"
       /\ result = NoResult
       /\ ops < MaxOps
       /\ documents' = RemoveDocuments(documents, sessionDocs)
       /\ embeddings' = RemoveEmbeddings(embeddings, sessionDocs)
       /\ sessionDocuments' = RemoveSession(sessionDocuments, sessionId)
       /\ sessions' = [sessions EXCEPT ![sessionId] = NoEntry]
       /\ ops' = ops + 1
       /\ lastOp' = [op |-> "deleteSession", documentId |-> <<>>,
                     sessionId |-> sessionId, sessionDocs |-> sessionDocs]
       /\ UNCHANGED <<impl, chatSessions, chatHistory, isInitialized,
                      currentElements, inflight, result>>

\* ------------------------------------------------------------------------
\* EnhancedVectorDatabase: the score of one chunk
\* ------------------------------------------------------------------------

\* n times the word, with a space between: 'good good ... good'.
RECURSIVE Repeated(_, _)
Repeated(word, n) ==
    IF n <= 1 THEN word
    ELSE word \o <<Space>> \o Repeated(word, n - 1)

\* The most words of praise in a chunk.
MaxPraise == 11

\* The most words of blame in a query.
MaxBlame == 10

ScoreQueries ==
    Queries \cup {QSix} \cup { Repeated(<<"b", "a", "d">>, n) : n \in 1..MaxBlame }

ScoreTexts == Texts \cup { Repeated(<<"g", "o", "o", "d">>, n) : n \in 1..MaxPraise }

\* The score semanticSearch gives one chunk: the composite similarity of
\* the query's feature record and the chunk's.
CalculateEnhancedSimilarity(query, text) ==
    /\ impl = "enhanced"
    /\ result = NoResult
    /\ result' = [ op |-> "calculateEnhancedSimilarity", query |-> query, text |-> text,
                   out |-> calculateEnhancedSimilarity(createTextEmbedding(query),
                                                       createTextEmbedding(text)) ]
    /\ UNCHANGED storeVars

\* ------------------------------------------------------------------------
\* VectorDatabaseService: the context built from a FAISS similarity search
\* ------------------------------------------------------------------------

\* The chunks a session's vector store holds.
VdsChunks ==
    { [documentId |-> DocD, chunkIndex |-> 0, content |-> TGoodTools],
      [documentId |-> DocD, chunkIndex |-> 1, content |-> TIs],
      [documentId |-> DocDX, chunkIndex |-> 0, content |-> TTools],
      [documentId |-> DocDX, chunkIndex |-> 1, content |-> TBadStep] }

\* relevance = 1 - score, the score being the distance FAISS reports.
VdsRelevances == { Scale \div 2, (Scale * 9) \div 10 }

\* The largest number of hits a similarity search returns.
MaxHits == 3

\* What similaritySearch can return: hits on different chunks of the
\* store, nearest first.
VdsHits ==
    { h \in UNION { [1..n -> [ documentId : DocIds, chunkIndex : 0..1,
                               content : Texts, relevance : VdsRelevances ]] :
                    n \in 0..MaxHits } :
        /\ \A i \in 1..Len(h) :
              [documentId |-> h[i].documentId, chunkIndex |-> h[i].chunkIndex,
               content |-> h[i].content] \in VdsChunks
        /\ \A i, j \in 1..Len(h) :
              i < j => /\ h[i].relevance >= h[j].relevance
                       /\ <<h[i].documentId, h[i].chunkIndex>>
                              # <<h[j].documentId, h[j].chunkIndex>> }

RECURSIVE vdsInsertChunk(_, _)
vdsInsertChunk(sorted, c) ==
    IF sorted = <<>> THEN <<c>>
    ELSE IF Head(sorted).relevance >= c.relevance
         THEN <<Head(sorted)>> \o vdsInsertChunk(Tail(sorted), c)
         ELSE <<c>> \o sorted

\* doc.chunks.sort((a, b) => b.relevance - a.relevance)
RECURSIVE vdsSortChunks(_)
vdsSortChunks(cs) ==
    IF cs = <<>> THEN <<>>
    ELSE vdsInsertChunk(vdsSortChunks(SubSeq(cs, 1, Len(cs) - 1)), cs[Len(cs)])

RECURSIVE vdsInsertDocument(_, _)
vdsInsertDocument(sorted, g) ==
    IF sorted = <<>> THEN <<g>>
    ELSE IF Head(sorted).maxRelevance >= g.maxRelevance
         THEN <<Head(sorted)>> \o vdsInsertDocument(Tail(sorted), g)
         ELSE <<g>> \o sorted

\* Object.values(documentGroups).sort((a, b) => b.maxRelevance - a.maxRelevance)
RECURSIVE vdsSortDocuments(_)
vdsSortDocuments(gs) ==
    IF gs = <<>> THEN <<>>
    ELSE vdsInsertDocument(vdsSortDocuments(SubSeq(gs, 1, Len(gs) - 1)), gs[Len(gs)])

\* One entry of documentGroups; maxRelevance starts at 0.
vdsDocumentGroup(hits, docId) ==
    LET chunks == ChunksOf(hits, docId)
    IN [ documentId |-> docId,
         chunks |-> vdsSortChunks(chunks),
         avgRelevance |->
             SumSeq([i \in 1..Len(chunks) |-> chunks[i].relevance]) \div Len(chunks),
         maxRelevance |->
             CHOOSE m \in {0} \cup { chunks[i].relevance : i \in 1..Len(chunks) } :
                 /\ m >= 0
                 /\ \A i \in 1..Len(chunks) : chunks[i].relevance <= m ]

\* crossDocumentSearch of VectorDatabaseService on the hits of its
\* similarity search: the documents field of the returned object.
vdsCrossDocumentSearch(hits) ==
    LET keys == GroupKeys(hits)
    IN vdsSortDocuments([i \in 1..Len(keys) |-> vdsDocumentGroup(hits, keys[i])])

\* estimateTokens = text => Math.ceil(text.length / 4)
estimateTokens(text) == CeilDiv(Len(text), 4)

\* The inner loop over one document's chunks: it stops at the first
\* chunk that would pass maxTokens.
RECURSIVE vdsTakeChunks(_, _, _)
vdsTakeChunks(chunks, tokenCount, maxTokens) ==
    IF chunks = <<>> THEN <<>>
    ELSE LET chunkTokens == estimateTokens(Head(chunks).content)
         IN IF tokenCount + chunkTokens > maxTokens THEN <<>>
            ELSE <<Head(chunks)>>
                 \o vdsTakeChunks(Tail(chunks), tokenCount + chunkTokens, maxTokens)

vdsTokens(chunks) ==
    SumSeq([i \in 1..Len(chunks) |-> estimateTokens(chunks[i].content)])

\* The outer loop over the documents: it stops once tokenCount has
\* reached nine tenths of maxTokens.
RECURSIVE vdsTakeDocuments(_, _, _)
vdsTakeDocuments(docs, tokenCount, maxTokens) ==
    IF docs = <<>> THEN <<>>
    ELSE LET taken == vdsTakeChunks(Head(docs).chunks, tokenCount, maxTokens)
             count == tokenCount + vdsTokens(taken)
         IN IF 10 * count >= 9 * maxTokens THEN taken
            ELSE taken \o vdsTakeDocuments(Tail(docs), count, maxTokens)

\* The chunks of the documents in the order the loops visit them.
RECURSIVE vdsRanked(_)
vdsRanked(docs) ==
    IF docs = <<>> THEN <<>>
    ELSE Head(docs).chunks \o vdsRanked(Tail(docs))

\* getRelevantContext of VectorDatabaseService.
vdsGetRelevantContext(hits, maxTokens) ==
    LET docs == vdsCrossDocumentSearch(hits)
        included == vdsTakeDocuments(docs, 0, maxTokens)
    IN [ included |-> included,
         sources |-> [i \in 1..Len(included) |->
                         [ documentId |-> included[i].documentId,
                           chunkIndex |-> included[i].chunkIndex,
                           relevance |-> included[i].relevance ]],
         tokenCount |-> vdsTokens(included),
         documentsUsed |-> Len(docs) ]

\* The constructor of VectorDatabaseService: no vector store, no document
\* index entry, no session.
InitFaiss ==
    /\ impl = "faiss"
    /\ documents = <<>>
    /\ embeddings = <<>>
    /\ sessionDocuments = [s \in Sessions |-> NoEntry]
    /\ isInitialized = TRUE
    /\ currentElements = 0
    /\ inflight = {}
    /\ ops = 0
    /\ lastOp = NoOp
    /\ sessions = [s \in Sessions |-> NoEntry]
    /\ chatSessions = <<>>
    /\ chatHistory = [id \in ChatIds |-> NoEntry]
    /\ result = NoResult

VdsGetRelevantContext(hits, maxTokens) ==
    /\ impl = "faiss"
    /\ result = NoResult
    /\ result' = [ op |-> "vdsGetRelevantContext", maxTokens |-> maxTokens,
                   ranked |-> vdsRanked(vdsCrossDocumentSearch(hits)),
                   out |-> vdsGetRelevantContext(hits, maxTokens) ]
    /\ UNCHANGED storeVars

\* ------------------------------------------------------------------------
\* Specifications
\* ------------------------------------------------------------------------

\* The largest limit a search is called with.
MaxLimit == 2

Limits == 0..MaxLimit

\* The largest maxTokens a context is assembled for.
MaxBudget == 4

TokenBudgets == 0..MaxBudget

\* The caller takes the returned value; results are never kept.
Respond ==
    /\ result # NoResult
    /\ result' = NoResult
    /\ UNCHANGED storeVars

Mutate ==
    \/ \E d \in DocIds, c \in ChunkLists, s \in Sessions : AddDocument(d, c, s)
    \/ \E s \in Sessions : deleteSession(s)

\* EnhancedVectorDatabase: ingest, delete and chunk search.
Next ==
    \/ Mutate
    \/ \E q \in Queries, s \in Sessions \cup {NoSession}, l \in Limits,
          ids \in {NoDocumentIds, <<DocD>>} : SemanticSearch(q, s, l, ids)
    \/ \E q \in Queries, s \in Sessions : ContextualQA(q, s)
    \/ Respond

Spec == InitEnhanced /\ [][Next]_vars

\* EnhancedVectorDatabase: ingest, delete and session statistics.
NextStats ==
    \/ Mutate
    \/ \E s \in Sessions : GetSessionStats(s)
    \/ \E s \in Sessions : GetSessionStatsAgain(s)
    \/ Respond

SpecStats == InitEnhanced /\ [][NextStats]_vars

\* EnhancedVectorDatabase: ingest, delete and context assembly.
NextContext ==
    \/ Mutate
    \/ \E q \in Queries, s \in Sessions, m \in TokenBudgets : GetRelevantContext(q, s, m)
    \/ Respond

SpecContext == InitEnhanced /\ [][NextContext]_vars

\* What the AdvancedVectorDatabase is called with.
AdvQueries == { QTools, QSix }

AdvChunkLists == { <<TTools>>, <<TGoodTools, TTools>> }

\* AdvancedVectorDatabase: initialisation, ingest with a failing encoder
\* and a full index, delete.
AdvMutate ==
    \/ \E loaded \in BOOLEAN : AdvInitialize(loaded)
    \/ \E d \in DocIds, c \in AdvChunkLists, s \in Sessions, embedded \in BOOLEAN :
          AdvAddDocument(d, c, s, embedded)
    \/ \E s \in Sessions : deleteSession(s)

\* AdvancedVectorDatabase: the above and chunk search.
NextAdv ==
    \/ AdvMutate
    \/ \E q \in AdvQueries, s \in Sessions \cup {NoSession} :
          \E knn \in KnnOutcomes(KnnSize(MaxLimit)) :
              AdvSemanticSearch(q, s, MaxLimit, NoDocumentIds, knn)
    \/ Respond

SpecAdv == InitAdvanced /\ [][NextAdv]_vars

\* Either store: ingest and delete.
NextStore ==
    \/ Mutate
    \/ AdvMutate
    \/ \E d \in DocIds, c \in {<<NullChunk>>, <<TTools, NullChunk>>}, s \in Sessions :
          AddDocumentRejected(d, c, s)
    \/ Respond

SpecStore == (InitEnhanced \/ InitAdvanced) /\ [][NextStore]_vars

CrossQueries == { QTools, QBad }

\* Either store and the DocumentService: ingest, delete and cross-document
\* search.
NextCross ==
    \/ Mutate
    \/ AdvMutate
    \/ \E q \in CrossQueries, s \in Sessions, l \in {1, MaxLimit},
          recent \in {{}, {DocDX}} : CrossDocumentSearch(q, s, l, recent)
    \/ \E q \in CrossQueries, s \in Sessions :
          ServiceCrossDocumentSearch(q, s, MaxLimit, NoDocumentIds)
    \/ \E q \in AdvQueries, s \in Sessions :
          \E knn \in KnnOutcomes(KnnSize(MaxLimit)) :
              AdvCrossDocumentSearch(q, s, MaxLimit, knn)
    \/ Respond

SpecCross == (InitEnhanced \/ InitAdvanced) /\ [][NextCross]_vars

\* A document of four equal chunks and a document of one.
CrowdLists == { <<TTools, TTools, TTools, TTools>>, <<TGoodTools>> }

\* EnhancedVectorDatabase: ingest of documents of unequal size, delete and
\* cross-document search with a limit of two or more.
NextCrowd ==
    \/ \E d \in DocIds, c \in CrowdLists, s \in Sessions : AddDocument(d, c, s)
    \/ \E s \in Sessions : deleteSession(s)
    \/ \E s \in Sessions, l \in 2..MaxLimit, recent \in SUBSET DocIds :
          CrossDocumentSearch(QTools, s, l, recent)
    \/ \E s \in Sessions, ids \in {NoDocumentIds, <<DocD>>} :
          SemanticSearch(QTools, s, MaxLimit, ids)
    \/ \E s \in Sessions : GetRelevantContext(QTools, s, MaxBudget)
    \/ Respond

SpecCrowd == InitEnhanced /\ [][NextCrowd]_vars

\* Contexts built by VectorDatabaseService from the hits of a search.
NextVds ==
    \/ \E h \in VdsHits, m \in TokenBudgets : VdsGetRelevantContext(h, m)
    \/ Respond

SpecVds == InitFaiss /\ [][NextVds]_vars

\* Scores of single chunks.
NextScore ==
    \/ \E q \in ScoreQueries, t \in ScoreTexts : CalculateEnhancedSimilarity(q, t)
    \/ Respond

SpecScore == InitEnhanced /\ [][NextScore]_vars

\* DocumentService: uploads and session deletions that overlap.
NextService ==
    \/ \E d \in DocIds, s \in Sessions : ProcessStart(d, <<TTools>>, s)
    \/ \E call \in inflight : ProcessIndex(call)
    \/ \E call \in inflight : ProcessFinish(call)
    \/ \E s \in Sessions : ServiceDeleteSession(s)

SpecService == InitEnhanced /\ [][NextService]_vars

\* addDocument calls of different documents that overlap at their await.
NextOverlap ==
    \/ \E d \in DocIds, c \in ChunkLists, s \in Sessions :
          /\ \A call \in inflight : call.documentId # d
          /\ AddDocumentStart(d, c, s)
    \/ \E call \in inflight : AddDocumentFinish(call)

SpecOverlap == InitEnhanced /\ [][NextOverlap]_vars

\* The maxTokens getRelevantContext assumes when the caller gives none.
DefaultMaxTokens == 4000

\* The number of chunks of a long document: one more than the sources a
\* context lists.
ManyChunks == 11

\* A document of one chunk and a document of ManyChunks short chunks.
SourceLists == { <<TTools>>, [i \in 1..ManyChunks |-> TTools] }

\* EnhancedVectorDatabase: ingest of long documents, delete and context
\* assembly within a small and within the default budget.
NextSources ==
    \/ \E d \in DocIds, c \in SourceLists, s \in Sessions : AddDocument(d, c, s)
    \/ \E s \in Sessions : deleteSession(s)
    \/ \E s \in Sessions, m \in {MaxBudget, DefaultMaxTokens} :
          GetRelevantContext(QTools, s, m)
    \/ Respond

SpecSources == InitEnhanced /\ [][NextSources]_vars

\* ChatHistoryService: sessions created, written to and deleted.
NextChat ==
    \/ \E s \in Sessions \cup {NoSession}, g \in GeneratedIds : CreateSession(NoTitle, s, g)
    \/ \E s \in ChatIds, m \in ChatMessages, g \in GeneratedIds : AddMessage(s, m, g)
    \/ \E s \in ChatIds : ChatDeleteSession(s)
    \/ Respond

SpecChat == InitEnhanced /\ [][NextChat]_vars

\* ------------------------------------------------------------------------
\* Properties
\* ------------------------------------------------------------------------

\* A semanticSearch has just returned.
Searched == result.op = "semanticSearch"

\* The last call that completed was deleteSession of the session the read
\* was given.
ReadAfterDelete == lastOp.op = "deleteSession" /\ result.sessionId = lastOp.sessionId

\* C1: once deleteSession(s) has completed, semanticSearch(q, s, limit)
\* returns the empty list for every query q, also while other sessions
\* still hold documents; here for a session that held documents.
C1_SearchAfterDeleteIsEmpty ==
    (Searched /\ ReadAfterDelete /\ lastOp.sessionDocs # <<>>) => result.out = <<>>

\* C2: every chunk a search given the sessionId s returns belongs to a
\* document registered under s; for a session without registered documents
\* the result is the empty list, never chunks of other sessions.
C2_ResultsBelongToSession ==
    (Searched /\ result.sessionId # NoSession) =>
        \A i \in 1..Len(result.out) :
            ListIncludes(SessionDocsOrEmpty(result.sessionId), result.out[i].documentId)

\* C3: a search returns at most limit results and every result has a
\* similarity of at least 0.1; here for the text search the
\* AdvancedVectorDatabase answers with in simple mode.
C3_LimitAndThreshold ==
    (Searched /\ impl = "advanced" /\ ~isInitialized) =>
        /\ Len(result.out) <= result.limit
        /\ \A i \in 1..Len(result.out) : result.out[i].similarity >= Threshold

\* The estimated cost of the included results: ceil(textLength / 4) each.
EstimatedCost(included) ==
    SumSeq([i \in 1..Len(included) |-> CeilDiv(Len(included[i].text), 4)])

\* C4: the results getRelevantContext includes have a total estimated
\* cost, the sum of ceil(textLength / 4), that does not exceed maxTokens.
C4_ContextWithinBudget ==
    result.op = "getRelevantContext" =>
        EstimatedCost(result.out.included) <= result.maxTokens

\* Chunk `index` of the document is indexed: the chunk record of that id
\* holds the document's text.
ChunkIndexed(doc, index) ==
    \E e \in Range(embeddings) :
        /\ e.key = ChunkId(doc.id, index)
        /\ e.text = doc.chunks[index + 1]

\* C5: in every state a reader can observe, a registered document has all
\* of its chunks indexed or none: never some indexed and others missing.
C5_NoPartlyIndexedDocument ==
    \A doc \in Range(documents) :
        (\E i \in 0..(Len(doc.chunks) - 1) : ChunkIndexed(doc, i))
            => \A i \in 0..(Len(doc.chunks) - 1) : ChunkIndexed(doc, i)

\* C6: after deleteSession(s) the store holds no document record and no
\* chunk of a document that was registered under s, the session's index
\* entry is gone, and no stored chunk refers to a document without a record.
C6_DeleteSessionRemovesAll ==
    /\ lastOp.op = "deleteSession" =>
           /\ \A i \in 1..Len(lastOp.sessionDocs) :
                  /\ ~HasDocument(documents, lastOp.sessionDocs[i])
                  /\ \A e \in Range(embeddings) : e.documentId # lastOp.sessionDocs[i]
           /\ \A doc \in Range(documents) : doc.sessionId # lastOp.sessionId
           /\ sessionDocuments[lastOp.sessionId] = NoEntry
    /\ \A e \in Range(embeddings) : HasDocument(documents, e.documentId)

\* A session that held documents was deleted while another session holds
\* indexed documents.
C6_Witness ==
    /\ lastOp.op = "deleteSession"
    /\ Len(lastOp.sessionDocs) >= 1
    /\ documents # <<>>
    /\ embeddings # <<>>

\* C7: every document listed in the index of session s has s as its
\* recorded sessionId, after any sequence of addDocument and deleteSession
\* calls.
C7_SessionIndexAgrees ==
    \A s \in Sessions :
        \A i \in 1..Len(SessionDocsOrEmpty(s)) :
            HasDocument(documents, SessionDocsOrEmpty(s)[i]) =>
                GetDocument(documents, SessionDocsOrEmpty(s)[i]).sessionId = s

\* C8: after deleteSession(s), getSessionStats(s) reports zero documents,
\* chunks and tokens, whatever other sessions hold.
C8_StatsAfterDeleteAreZero ==
    (result.op = "getSessionStats" /\ ReadAfterDelete) =>
        result.out = [documentCount |-> 0, chunkCount |-> 0, estimatedTokens |-> 0]

\* The statistics of a deleted session that held documents, read while
\* another session holds some.
C8_Witness ==
    /\ result.op = "getSessionStats"
    /\ ReadAfterDelete
    /\ lastOp.sessionDocs # <<>>
    /\ documents # <<>>

\* The place of a result's chunk in the store's insertion order.
InsertionIndex(r) ==
    CHOOSE k \in 1..Len(embeddings) :
        embeddings[k].key = ChunkId(r.documentId, r.chunkIndex)

CrossSearched == result.op \in {"crossDocumentSearch", "serviceCrossDocumentSearch"}

\* C10: the groups crossDocumentSearch returns are sorted by relevance,
\* descending, and no documentId has two groups.
C10_GroupsSortedUnique ==
    CrossSearched =>
        \A i, j \in 1..Len(result.out) :
            i < j =>
                /\ result.out[i].relevanceScore >= result.out[j].relevanceScore
                /\ result.out[i].documentId # result.out[j].documentId

\* Two groups of different relevance, one of them of two chunks.
C10_Witness ==
    /\ CrossSearched
    /\ Len(result.out) >= 2
    /\ result.out[1].relevanceScore > result.out[2].relevanceScore
    /\ \E i \in 1..Len(result.out) : result.out[i].chunkCount >= 2

\* C11: crossDocumentSearch(query, sessionId, limit) returns at most limit
\* document groups.
C11_AtMostLimitGroups ==
    CrossSearched => Len(result.out) <= result.limit

\* The search of the EnhancedVectorDatabase found chunks of two documents
\* and returned one group, the limit.
C11_Witness ==
    /\ result.op = "crossDocumentSearch"
    /\ impl = "enhanced"
    /\ result.limit = 1
    /\ Len(result.out) = 1
    /\ Len(GroupKeys(semanticSearch(result.query, result.sessionId, 2, NoDocumentIds))) = 2

\* The documents of the session with a stored chunk that scores above the
\* threshold for the query.
RelevantDocs(query, sessionId) ==
    { embeddings[k].documentId : k \in
        { k \in 1..Len(embeddings) :
            /\ ListIncludes(SessionDocsOrEmpty(sessionId), embeddings[k].documentId)
            /\ SimilarityOf[query, embeddings[k].text] > Threshold } }

\* C12: when two documents of the session each have a chunk above the
\* threshold, crossDocumentSearch with limit >= 2 returns a group of at
\* least one chunk for each of them, however many chunks either has.
C12_BothDocumentsReturned ==
    (/\ result.op = "crossDocumentSearch"
     /\ impl = "enhanced"
     /\ result.limit >= 2
     /\ Cardinality(RelevantDocs(result.query, result.sessionId)) = 2) =>
        \A d \in RelevantDocs(result.query, result.sessionId) :
            \E i \in 1..Len(result.out) :
                /\ result.out[i].documentId = d
                /\ result.out[i].chunkCount >= 1

\* The longest prefix of the ranked chunks whose estimated costs, the sum
\* of ceil(textLength / 4), stay within maxTokens.
LongestPrefixWithin(ranked, maxTokens) ==
    LET fits == { n \in 0..Len(ranked) : vdsTokens(SubSeq(ranked, 1, n)) <= maxTokens }
    IN SubSeq(ranked, 1, CHOOSE n \in fits : \A m \in fits : m <= n)

\* C13: the chunks a context includes are, in ranked order and each in
\* full, exactly the longest prefix of the ranked chunks whose cumulative
\* estimated token cost stays within maxTokens.
C13_IncludedIsLongestPrefix ==
    result.op = "vdsGetRelevantContext" =>
        result.out.included = LongestPrefixWithin(result.ranked, result.maxTokens)

RegisteredDocs(sessionId) ==
    { d \in Range(SessionDocsOrEmpty(sessionId)) : HasDocument(documents, d) }

\* C15: getSessionStats reports the number of distinct documents
\* registered under the session, the total number of their chunks and the
\* sum of ceil(chunkLength / 4) over those chunks.
C15_StatsCountDistinctDocuments ==
    result.op = "getSessionStats" =>
        LET ds == RegisteredDocs(result.sessionId)
            chunks == [d \in ds |-> GetDocument(documents, d).chunks]
        IN /\ result.out.documentCount = Cardinality(ds)
           /\ result.out.chunkCount = SumSet(ds, [d \in ds |-> Len(chunks[d])])
           /\ result.out.estimatedTokens =
                  SumSet(ds, [d \in ds |->
                      SumSeq([j \in 1..Len(chunks[d]) |-> CeilDiv(Len(chunks[d][j]), 4)])])

C17_VerbatimMatchScoresHigh ==
    (Searched /\ result.query # <<>>) =>
        \A i \in 1..Len(result.out) :
            Includes(toLowerCase(result.out[i].text), toLowerCase(result.query))
                => 10 * result.out[i].similarity >= 8 * Scale

\* The two texts share no stemmed term and no keyword.
NothingShared(query, text) ==
    LET q == createTextEmbedding(query)
        t == createTextEmbedding(text)
    IN /\ DOMAIN q.tfidf \cap DOMAIN t.tfidf = {}
       /\ DOMAIN q.wordFreq \cap DOMAIN t.wordFreq = {}
       /\ Range(q.keywords) \cap Range(t.keywords) = {}

\* C18: a query and a chunk that share no stemmed term and no keyword
\* have the composite score 0, whatever their semantic flags and
\* sentiment.
C18_NothingSharedScoresZero ==
    (result.op = "calculateEnhancedSimilarity" /\ NothingShared(result.query, result.text))
        => result.out = 0

\* C19: the composite similarity of two feature records is in [0, 1].
C19_ScoreInUnitInterval ==
    result.op = "calculateEnhancedSimilarity" => (result.out >= 0 /\ result.out <= Scale)

C21_EmptyIngestRegistersNothing ==
    lastOp.op = "addDocument" =>
        \A i \in 1..Len(documents) :
            documents[i].id = lastOp.documentId => documents[i].chunks # <<>>

\* The operations that search the chunk store.
SearchOps == { "semanticSearch", "crossDocumentSearch", "getRelevantContext" }

\* C22: a step in which semanticSearch, searchInDocuments,
\* crossDocumentSearch or getRelevantContext returns leaves the document
\* records, the chunk index and the session index unchanged.
C22_SearchIsReadOnly ==
    [][ (result = NoResult /\ result' # NoResult /\ result'.op \in SearchOps) =>
            /\ documents' = documents
            /\ embeddings' = embeddings
            /\ sessionDocuments' = sessionDocuments ]_vars

\* A search of a session the store does not know has returned, while
\* another session holds documents.
C22_Witness ==
    /\ result.op = "semanticSearch"
    /\ sessionDocuments[result.sessionId] = NoEntry
    /\ documents # <<>>
    /\ embeddings # <<>>

\* C23: once the uploads and the deleteSession calls of a session have
\* all completed, the state is one a sequential order leaves: the
\* session's record in DocumentService lists exactly the documents the
\* store lists under the session, or both are absent.
C23_IngestDeleteSerialized ==
    inflight = {} =>
        \A s \in Sessions :
            IF sessions[s] = NoEntry THEN sessionDocuments[s] = NoEntry
            ELSE /\ sessionDocuments[s] # NoEntry
                 /\ Range(sessions[s]) = Range(sessionDocuments[s])

\* The number of entries on all the session lists.
ListedCount ==
    SumSet(Sessions, [s \in Sessions |-> Len(SessionDocsOrEmpty(s))])

C25_SessionListHasNoDuplicates ==
    \A s \in Sessions :
        \A i, j \in 1..Len(SessionDocsOrEmpty(s)) :
            i # j => SessionDocsOrEmpty(s)[i] # SessionDocsOrEmpty(s)[j]


\* The document is on the list of another session and not on the list of
\* sessionId.
ListedOnlyElsewhere(documentId, sessionId) ==
    /\ ~ListIncludes(SessionDocsOrEmpty(sessionId), documentId)
    /\ \E other \in Sessions \ {sessionId} :
           ListIncludes(SessionDocsOrEmpty(other), documentId)

\* C26: deleteSession(s) leaves every document record and every chunk of a
\* document registered only under other sessions stored with the same
\* content, also when one documentId is the other followed by '_' and more
\* characters.
C26_DeleteSessionKeepsOtherSessions ==
    [][ (lastOp'.op = "deleteSession" /\ ops' = ops + 1) =>
            \A documentId \in DocIds :
                ListedOnlyElsewhere(documentId, lastOp'.sessionId) =>
                    /\ \A doc \in Range(documents) :
                           doc.id = documentId => doc \in Range(documents')
                    /\ \A e \in Range(embeddings) :
                           e.documentId = documentId => e \in Range(embeddings')
      ]_vars


\* C27: the chunk index agrees with the document records: the stored
\* chunks with documentId d are exactly d_0 .. d_(n-1) for the n chunks of
\* the record of d, each carrying the record's current chunk text.
C27_ChunkIndexAgreesWithRecords ==
    \A i \in 1..Len(documents) :
        LET doc == documents[i]
        IN /\ \A j \in 1..Len(doc.chunks) :
                  \E e \in Range(embeddings) :
                      /\ e.key = ChunkId(doc.id, j - 1)
                      /\ e.documentId = doc.id
                      /\ e.text = doc.chunks[j]
           /\ \A e \in Range(embeddings) :
                  e.documentId = doc.id =>
                      \E j \in 1..Len(doc.chunks) :
                          /\ e.key = ChunkId(doc.id, j - 1)
                          /\ e.text = doc.chunks[j]


\* What semanticSearch(query, sessionId, limit) returns in the store that
\* holds the documents of sessionId and nothing of any other session.
SearchAlone(query, sessionId, limit) ==
    LET own == FilterSeq(embeddings, [e \in Range(embeddings) |->
                   ListIncludes(SessionDocsOrEmpty(sessionId), e.documentId)])
        scored == [i \in 1..Len(own) |->
                      [ documentId |-> own[i].documentId,
                        chunkIndex |-> own[i].chunkIndex,
                        text |-> own[i].text,
                        similarity |-> SimilarityOf[query, own[i].text] ]]
        results == FilterSeq(scored, [r \in Range(scored) |-> r.similarity > Threshold])
    IN Slice(SortBySimilarity(results), limit)

\* C28: contextualQA(question, s) and semanticSearch(query, s) select the
\* chunks they select in the store without the documents of other
\* sessions, so what other sessions hold does not show in the selection,
\* and no selected chunk is of a document of another session.
C28_SelectionIgnoresOtherSessions ==
    ( /\ result.op \in {"contextualQA", "semanticSearch"}
      /\ result.sessionId # NoSession
      /\ result.documentIds = NoDocumentIds ) =>
        /\ result.out = SearchAlone(result.query, result.sessionId, result.limit)
        /\ \A i \in 1..Len(result.out) :
               ListIncludes(SessionDocsOrEmpty(result.sessionId), result.out[i].documentId)


\* C29: getRelevantContext returns one source entry per included result,
\* in the same order: the i-th source describes the i-th included chunk.
C29_OneSourcePerIncluded ==
    result.op = "getRelevantContext" =>
        /\ Len(result.out.sources) = Len(result.out.included)
        /\ \A i \in 1..Len(result.out.sources) :
               /\ result.out.sources[i].documentId = result.out.included[i].documentId
               /\ result.out.sources[i].similarity = result.out.included[i].similarity
               /\ result.out.sources[i].snippet = Slice(result.out.included[i].text, 150)


\* C30: addMessage(sessionId, message) for a sessionId without a history
\* does not fail, creates the session under that sessionId and under no
\* other id, and appends the message; afterwards the session's
\* messageCount is the length of the stored history.
C30_AddMessageCreatesItsSession ==
    [][ ( /\ result = NoResult
          /\ result'.op = "addMessage"
          /\ chatHistory[result'.sessionId] = NoEntry ) =>
            /\ ~result'.threw
            /\ chatHistory'[result'.sessionId] = <<result'.message>>
            /\ HasDocument(chatSessions', result'.sessionId)
            /\ GetDocument(chatSessions', result'.sessionId).messageCount
                   = Len(chatHistory'[result'.sessionId])
            /\ \A id \in ChatIds \ {result'.sessionId} :
                   /\ chatHistory'[id] = chatHistory[id]
                   /\ HasDocument(chatSessions', id) = HasDocument(chatSessions, id)
      ]_vars

====
